---- MODULE Spec2Model ----
(***************************************************************************)
(* State-machine model of telegram-fitness-bot.py: the three SQLite tables *)
(* (users, challenges, completions), the per-user context.user_data        *)
(* scratch dictionary, the check-in buttons that have been sent to chats,  *)
(* and the handlers start, button_callback, receive_challenge,             *)
(* check_progress and stats.                                               *)
(*                                                                         *)
(* add_challenge is modelled statement by statement.  Python's sqlite3     *)
(* module opens a transaction implicitly before the first UPDATE/INSERT of *)
(* a connection and publishes it at conn.commit(); the connection holds    *)
(* SQLite's RESERVED lock from the UPDATE until it commits or is           *)
(* deallocated.  A connection's uncommitted work is its page cache.        *)
(*                                                                         *)
(* Time is counted in days.                                                *)
(***************************************************************************)
EXTENDS Integers, Sequences, FiniteSets, TLC

VARIABLES
    users,        \* table users: set of rows [user_id, username, first_name]
    challenges,   \* table challenges (committed): sequence of rows, index = rowid
    completions,  \* table completions (committed): sequence of rows, index = rowid
    user_data,    \* context.user_data per user: set of <<key, value>> pairs
    txns,         \* add_challenge connections with an open transaction
    keyboards,    \* per inline keyboard, the messages in the chat that carry it
    queue,        \* button presses received and not yet handled, oldest first
    awaiting,     \* the handler that is suspended at an await, if any
    now,          \* datetime.now(), in days
    registered    \* history: arguments of the latest add_user call per user id

vars == <<users, challenges, completions, user_data, txns, keyboards, queue,
          awaiting, now, registered>>

----------------------------------------------------------------------------
(* Bounds of the model *)

MaxChallenges == 2
MaxCompletions == 2
MaxTime == 30
\* Messages in the chat that carry the same keyboard: once that many are
\* there, a further reply with that keyboard is followed only where it raises
MaxKeyboards == 1
\* Button presses waiting to be handled
MaxQueue == 2

UserIds == {1, 2}
Profiles == {<<"h1", "n1">>, <<"h2", "n2">>}
Texts == {"", "pushups"}
TickDays == {30}

(* Program constants *)

WindowDays == 30
Frequencies == {"daily", "weekly"}

----------------------------------------------------------------------------
(* Sequences helpers *)

Digits == <<"1", "2", "3", "4", "5", "6", "7", "8", "9">>

\* str(n) inside an f-string
Str(n) == Digits[n]

\* int(s)
ParseInt(s) == CHOOSE n \in 1..Len(Digits) : Digits[n] = s

----------------------------------------------------------------------------
(* Database helper functions, as functions of the table contents *)

UserRow(user_id, username, first_name) ==
    [user_id |-> user_id, username |-> username, first_name |-> first_name]

\* INSERT OR REPLACE INTO users VALUES (?, ?, ?): user_id is the primary key,
\* so a row with the same key is removed before the new row is inserted.
add_user_keep(tbl, user_id, username, first_name) ==
    tbl \cup {UserRow(user_id, username, first_name)}

add_user(tbl, user_id, username, first_name) ==
    {r \in tbl : r.user_id # user_id} \cup {UserRow(user_id, username, first_name)}

\* UPDATE challenges SET active = 0 WHERE user_id = ?
Deactivate_none(tbl, user_id) == tbl

Deactivate_all(tbl, user_id) ==
    [i \in 1..Len(tbl) |-> [tbl[i] EXCEPT !.active = FALSE]]

Deactivate(tbl, user_id) ==
    [i \in 1..Len(tbl) |->
        IF tbl[i].user_id = user_id THEN [tbl[i] EXCEPT !.active = FALSE]
        ELSE tbl[i]]

\* INSERT INTO challenges (user_id, challenge_text, frequency, created_at):
\* id is AUTOINCREMENT (no row is ever deleted, so it is the row count plus
\* one) and active takes its DEFAULT 1.
InsertChallenge_inactive(tbl, user_id, challenge_text, frequency, t) ==
    Append(tbl, [id |-> Len(tbl) + 1, user_id |-> user_id,
                 challenge_text |-> challenge_text, frequency |-> frequency,
                 created_at |-> t, active |-> FALSE])

InsertChallenge(tbl, user_id, challenge_text, frequency, t) ==
    Append(tbl, [id |-> Len(tbl) + 1, user_id |-> user_id,
                 challenge_text |-> challenge_text, frequency |-> frequency,
                 created_at |-> t, active |-> TRUE])

\* The result of fetchone() when the SELECT has no row
None == [id |-> 0, challenge_text |-> "", frequency |-> ""]

\* SELECT id, challenge_text, frequency FROM challenges
\*   WHERE user_id = ? AND active = 1;  fetchone() takes the first row
get_active_challenge_any(tbl, user_id) ==
    LET rows == SelectSeq(tbl, LAMBDA r : r.user_id = user_id)
    IN IF rows = <<>> THEN None
       ELSE [id |-> rows[1].id, challenge_text |-> rows[1].challenge_text,
             frequency |-> rows[1].frequency]

get_active_challenge(tbl, user_id) ==
    LET rows == SelectSeq(tbl, LAMBDA r : r.user_id = user_id /\ r.active)
    IN IF rows = <<>> THEN None
       ELSE [id |-> rows[1].id, challenge_text |-> rows[1].challenge_text,
             frequency |-> rows[1].frequency]

\* INSERT INTO completions (user_id, challenge_id, completed_at)
record_completion_overwrite(tbl, user_id, challenge_id, t) ==
    <<[id |-> 1, user_id |-> user_id, challenge_id |-> challenge_id,
       completed_at |-> t]>>

record_completion_reuse_id(tbl, user_id, challenge_id, t) ==
    Append(tbl, [id |-> challenge_id, user_id |-> user_id,
                 challenge_id |-> challenge_id, completed_at |-> t])

record_completion(tbl, user_id, challenge_id, t) ==
    Append(tbl, [id |-> Len(tbl) + 1, user_id |-> user_id,
                 challenge_id |-> challenge_id, completed_at |-> t])

\* c.completed_at > ?   with ? = datetime.now() - timedelta(days=30)
InWindow_inclusive(completed_at, t) == completed_at >= t - WindowDays

InWindow(completed_at, t) == completed_at > t - WindowDays

\* COUNT(c.id) of the LEFT JOIN for one users row
CompletionCount(comps, user_id, t) ==
    Cardinality({i \in 1..Len(comps) :
        comps[i].user_id = user_id /\ InWindow(comps[i].completed_at, t)})

\* The users rows in the order the scan of the users table visits them
\* (user_id is the rowid)
RECURSIVE ScanUsers(_)
ScanUsers(tbl) ==
    IF tbl = {} THEN <<>>
    ELSE LET r == CHOOSE x \in tbl : \A y \in tbl : x.user_id <= y.user_id
         IN <<r>> \o ScanUsers(tbl \ {r})

\* GROUP BY u.user_id: one row per users row, with its COUNT(c.id)
GroupRows(tbl, comps, t) ==
    LET scan == ScanUsers(tbl)
    IN [i \in 1..Len(scan) |->
          [user_id |-> scan[i].user_id, first_name |-> scan[i].first_name,
           username |-> scan[i].username,
           completion_count |-> CompletionCount(comps, scan[i].user_id, t)]]

\* ORDER BY completion_count DESC: r is placed after every row whose count is
\* at least its own, so rows with equal counts keep the order of the scan
RECURSIVE InsertDesc(_, _)
InsertDesc_asc(r, sorted) ==
    IF sorted = <<>> THEN <<r>>
    ELSE IF Head(sorted).completion_count <= r.completion_count
         THEN <<Head(sorted)>> \o InsertDesc(r, Tail(sorted))
         ELSE <<r>> \o sorted

InsertDesc(r, sorted) ==
    IF sorted = <<>> THEN <<r>>
    ELSE IF Head(sorted).completion_count >= r.completion_count
         THEN <<Head(sorted)>> \o InsertDesc(r, Tail(sorted))
         ELSE <<r>> \o sorted

RECURSIVE OrderByCountDesc(_)
OrderByCountDesc(rows) ==
    IF rows = <<>> THEN <<>>
    ELSE InsertDesc(rows[Len(rows)],
                    OrderByCountDesc(SubSeq(rows, 1, Len(rows) - 1)))

\* The grouped and ordered rows, before the SELECT list drops user_id
GroupedStats(tbl, comps, t) == OrderByCountDesc(GroupRows(tbl, comps, t))

\* SELECT u.first_name, u.username, COUNT(c.id) as completion_count
get_monthly_stats(tbl, comps, t) ==
    LET g == GroupedStats(tbl, comps, t)
    IN [i \in 1..Len(g) |->
          <<g[i].first_name, g[i].username, g[i].completion_count>>]

----------------------------------------------------------------------------
(* Connections and transactions *)

\* conn.commit(): the connection's page cache becomes the committed table
Commit(committed, cache) == cache

\* A connection that is deallocated with its transaction still open rolls
\* the transaction back
CloseWithoutCommit_autocommit(committed, cache) == cache

CloseWithoutCommit(committed, cache) == committed

\* SQLite lets one connection at a time hold the RESERVED lock that a write
\* statement needs; every other writer gets "database is locked"
LockFree_unlocked == TRUE

LockFree == txns = {}

\* The application handles one update at a time (concurrent_updates is off)
\* and add_challenge never awaits: while its statements run, or while its
\* UPDATE waits for the lock, no other handler does
HandlerRunning == \E t \in txns : t.pc \in {"updated", "inserted", "waiting"}

\* A handler that has reached an await gives the event loop back: updates
\* keep arriving while it waits, and since updates are handled one after the
\* other, no other handler starts before it has finished
NotAwaiting == [handler |-> "none", user_id |-> 0, keyboard |-> {}, message |-> 0]

AwaitingEdit(k, n) ==
    [handler |-> "button_callback", user_id |-> 0, keyboard |-> k, message |-> n]

AwaitingReply(u) ==
    [handler |-> "receive_challenge", user_id |-> u, keyboard |-> {},
     message |-> 0]

Suspended == awaiting # NotAwaiting

----------------------------------------------------------------------------
(* context.user_data, a dict per user *)

HasKey(d, k) == \E p \in d : p[1] = k

Get(d, k) == (CHOOSE p \in d : p[1] = k)[2]

SetKey(d, k, v) == {p \in d : p[1] # k} \cup {<<k, v>>}

\* callback_data of the buttons
FrequencyData(f) == <<f>>
CompleteData(challenge_id) == <<"complete", Str(challenge_id)>>
NotCompleteData == <<"not", "complete">>

\* The keyboard of the reply to /start: the two frequency buttons
WelcomeKeyboard == {FrequencyData(f) : f \in Frequencies}

\* The keyboard of a check-in prompt: "Yes, completed!" and "Not yet"
PromptKeyboard(challenge_id) == {CompleteData(challenge_id), NotCompleteData}

Keyboards == {WelcomeKeyboard} \cup {PromptKeyboard(i) : i \in 1..MaxChallenges}

\* The messages that carry one keyboard are numbered 1..MaxKeyboards; a
\* number is free again once its message has lost the keyboard
Messages == 1..MaxKeyboards

\* reply_text(..., reply_markup=k) that did not raise: one more message
\* carries keyboard k
SendKeyboard(kb, k) ==
    [kb EXCEPT ![k] = @ \cup {CHOOSE n \in Messages \ @ :
                                  \A m \in Messages \ @ : n <= m}]

\* edit_message_text(text) without reply_markup, on the pressed message n:
\* the message loses its keyboard (n = 0: it had lost it before)
RemoveKeyboard(kb, k, n) == [kb EXCEPT ![k] = @ \ {n}]

\* The buttons that can be pressed: those of the keyboards that were sent and
\* not taken off since
Buttons == UNION {k \in Keyboards : keyboards[k] # {}}

\* A press waiting in the update queue of run_polling: who pressed, the
\* callback_data, and the message it was pressed on
Press(u, d, k, n) == [user_id |-> u, data |-> d, keyboard |-> k, message |-> n]

\* The waiting presses on a message that has just lost its keyboard are
\* presses on a message without keyboard (message 0) from then on
Stale(q, k, n) ==
    [i \in 1..Len(q) |->
        IF q[i].keyboard = k /\ q[i].message = n
        THEN [q[i] EXCEPT !.message = 0] ELSE q[i]]

\* filters.TEXT & ~filters.COMMAND: the message handler sees a message only
\* if its text is not empty (commands go to the command handlers)
TextFilter(text) == text # ""

\* query.data.startswith('complete_'), on the parts of query.data.split('_')
StartsWithComplete(d) == Len(d) >= 2 /\ d[1] = "complete"

----------------------------------------------------------------------------
(* Initial state: init_db has created the three empty tables *)

Init ==
    /\ users = {}
    /\ challenges = <<>>
    /\ completions = <<>>
    /\ user_data = [u \in UserIds |-> {}]
    /\ txns = {}
    /\ keyboards = [k \in Keyboards |-> {}]
    /\ queue = <<>>
    /\ awaiting = NotAwaiting
    /\ now = 0
    /\ registered = [u \in UserIds |-> <<>>]

----------------------------------------------------------------------------
(* Handlers *)

\* /start: add_user, then the reply with the frequency keyboard; when the
\* reply raises, the users row is written and no keyboard was sent
start(u, username, first_name) ==
    /\ ~HandlerRunning
    /\ ~Suspended
    /\ LockFree
    /\ users' = add_user(users, u, username, first_name)
    /\ registered' = [registered EXCEPT ![u] = <<username, first_name>>]
    /\ \E sent \in BOOLEAN :
          /\ sent => keyboards[WelcomeKeyboard] # Messages
          /\ keyboards' = IF sent THEN SendKeyboard(keyboards, WelcomeKeyboard)
                          ELSE keyboards
    /\ UNCHANGED <<challenges, completions, user_data, txns, queue, awaiting, now>>

\* User u presses the button with callback_data d on a message that carries
\* it: Telegram delivers the press as an update, which waits until the
\* updates before it are handled. (Commands and text messages can be sent at
\* any time, so their handlers below run as if sent before the waiting
\* presses.)
press(u, d) ==
    /\ ~HandlerRunning
    /\ d \in Buttons
    /\ d # NotCompleteData
    /\ Len(queue) + (IF awaiting.handler = "button_callback" THEN 1 ELSE 0)
          < MaxQueue
    /\ StartsWithComplete(d) =>
          Len(completions)
            + Cardinality({i \in 1..Len(queue) : StartsWithComplete(queue[i].data)})
            < MaxCompletions
    /\ \E k \in Keyboards, n \in Messages :
          /\ n \in keyboards[k]
          /\ d \in k
          /\ queue' = Append(queue, Press(u, d, k, n))
    /\ UNCHANGED <<users, challenges, completions, user_data, txns, keyboards,
                   awaiting, now, registered>>

\* User u presses "Not yet": the press matches no branch of button_callback,
\* so whenever its turn comes the handler changes nothing; it is not kept in
\* the queue
press_not_complete(u) ==
    /\ ~HandlerRunning
    /\ ~Suspended
    /\ NotCompleteData \in Buttons
    /\ UNCHANGED vars

\* The handler of the oldest waiting press, up to its await of
\* edit_message_text. It does not look at the chat: it acts on query.data
\* and query.from_user whatever the pressed message shows by now.
\* query.answer() may raise, and so may record_completion when the database
\* is locked: the handler ends there. The two branches that act write and
\* then wait for the edit of the pressed message
button_callback ==
    /\ ~HandlerRunning
    /\ ~Suspended
    /\ queue # <<>>
    /\ queue' = Tail(queue)
    /\ LET q == Head(queue)
           u == q.user_id
           d == q.data
       IN \E answered \in BOOLEAN :
             IF ~answered
             THEN UNCHANGED <<completions, user_data, awaiting>>
             ELSE IF d \in {<<"daily">>, <<"weekly">>}
             THEN /\ user_data' =
                        [user_data EXCEPT ![u] = SetKey(@, "frequency", d[1])]
                  /\ awaiting' = AwaitingEdit(q.keyboard, q.message)
                  /\ UNCHANGED completions
             ELSE IF StartsWithComplete(d) /\ LockFree
             THEN /\ completions' =
                        record_completion(completions, u, ParseInt(d[2]), now)
                  /\ awaiting' = AwaitingEdit(q.keyboard, q.message)
                  /\ UNCHANGED user_data
             ELSE UNCHANGED <<completions, user_data, awaiting>>
    /\ UNCHANGED <<users, challenges, txns, keyboards, now, registered>>

\* edit_message_text returns or raises, and button_callback ends: when it
\* returns, the pressed message has lost its keyboard, and the presses on it
\* that arrived in the meantime are presses on a message without keyboard
button_callback_edit ==
    /\ awaiting.handler = "button_callback"
    /\ awaiting' = NotAwaiting
    /\ \E edited \in BOOLEAN :
          /\ keyboards' =
                IF edited
                THEN RemoveKeyboard(keyboards, awaiting.keyboard, awaiting.message)
                ELSE keyboards
          /\ queue' = IF edited
                      THEN Stale(queue, awaiting.keyboard, awaiting.message)
                      ELSE queue
    /\ UNCHANGED <<users, challenges, completions, user_data, txns, now,
                   registered>>

\* A text message: receive_challenge up to and including the UPDATE of
\* add_challenge, which opens the transaction. While another connection
\* holds the lock, the UPDATE of the new connection waits for it
receive_challenge(u, text) ==
    /\ ~HandlerRunning
    /\ ~Suspended
    /\ IF ~HasKey(user_data[u], "frequency")
       THEN UNCHANGED txns
       ELSE IF LockFree
       THEN /\ Len(challenges) < MaxChallenges
            /\ txns' = txns \cup
                  {[pc |-> "updated", user_id |-> u, challenge_text |-> text,
                    frequency |-> Get(user_data[u], "frequency"),
                    cache |-> Deactivate(challenges, u)]}
       ELSE txns' = txns \cup
                  {[pc |-> "waiting", user_id |-> u, challenge_text |-> text,
                    frequency |-> Get(user_data[u], "frequency"),
                    cache |-> challenges]}
    /\ UNCHANGED <<users, challenges, completions, user_data, keyboards, queue, awaiting, now,
                   registered>>

\* The INSERT of add_challenge, in the open transaction
add_challenge_insert(t) ==
    /\ t \in txns /\ t.pc = "updated"
    /\ txns' = (txns \ {t}) \cup
          {[t EXCEPT !.pc = "inserted",
                     !.cache = InsertChallenge(t.cache, t.user_id,
                                   t.challenge_text, t.frequency, now)]}
    /\ UNCHANGED <<users, challenges, completions, user_data, keyboards, queue, awaiting, now,
                   registered>>

\* conn.commit() and conn.close(); add_challenge returns and
\* receive_challenge reaches its await of reply_text
add_challenge_commit(t) ==
    /\ t \in txns /\ t.pc = "inserted"
    /\ challenges' = Commit(challenges, t.cache)
    /\ txns' = txns \ {t}
    /\ awaiting' = AwaitingReply(t.user_id)
    /\ UNCHANGED <<users, completions, user_data, keyboards, queue, now,
                   registered>>

\* reply_text returns or raises, and receive_challenge ends:
\* context.user_data.clear() comes after the await, so the dict is cleared
\* only if sending the reply did not raise
receive_challenge_clear ==
    /\ awaiting.handler = "receive_challenge"
    /\ awaiting' = NotAwaiting
    /\ \E sent \in BOOLEAN :
          user_data' = IF sent THEN [user_data EXCEPT ![awaiting.user_id] = {}]
                       ELSE user_data
    /\ UNCHANGED <<users, challenges, completions, txns, keyboards, queue, now,
                   registered>>

\* The UPDATE has waited for the lock in vain (the connection that holds it
\* is not deallocated while the statement blocks): "database is locked"
\* leaves add_challenge and the handler, nothing was changed
add_challenge_refused(t) ==
    /\ t \in txns /\ t.pc = "waiting"
    /\ txns' = txns \ {t}
    /\ UNCHANGED <<users, challenges, completions, user_data, keyboards, queue,
                   awaiting, now, registered>>

\* A statement of add_challenge raises: the exception leaves the handler and
\* is logged; the connection was neither committed nor closed
add_challenge_raise(t) ==
    /\ t \in txns /\ t.pc \in {"updated", "inserted"}
    /\ txns' = (txns \ {t}) \cup {[t EXCEPT !.pc = "raised"]}
    /\ UNCHANGED <<users, challenges, completions, user_data, keyboards, queue, awaiting, now,
                   registered>>

\* The abandoned connection is deallocated. The program has one thread: the
\* reference is dropped between the steps of its handlers, never while a
\* statement of another connection runs or waits for the lock
connection_dealloc(t) ==
    /\ ~HandlerRunning
    /\ t \in txns /\ t.pc = "raised"
    /\ challenges' = CloseWithoutCommit(challenges, t.cache)
    /\ txns' = txns \ {t}
    /\ UNCHANGED <<users, completions, user_data, keyboards, queue, awaiting, now,
                   registered>>

\* /check: the prompt is sent unless the reply raises
check_progress_writes(u) ==
    LET challenge == get_active_challenge(challenges, u)
    IN /\ ~HandlerRunning
       /\ ~Suspended
       /\ challenge # None
       /\ keyboards[PromptKeyboard(challenge.id)] # Messages
       /\ keyboards' = SendKeyboard(keyboards, PromptKeyboard(challenge.id))
       /\ challenges' = Deactivate(challenges, u)
       /\ UNCHANGED <<users, completions, user_data, txns, queue, awaiting, now,
                      registered>>

check_progress(u) ==
    LET challenge == get_active_challenge(challenges, u)
    IN /\ ~HandlerRunning
       /\ ~Suspended
       /\ IF challenge = None
          THEN UNCHANGED keyboards
          ELSE \E sent \in BOOLEAN :
                  /\ sent => keyboards[PromptKeyboard(challenge.id)] # Messages
                  /\ keyboards' =
                        IF sent
                        THEN SendKeyboard(keyboards, PromptKeyboard(challenge.id))
                        ELSE keyboards
       /\ UNCHANGED <<users, challenges, completions, user_data, txns, queue, awaiting,
                      now, registered>>

\* /stats: renders get_monthly_stats(users, completions, now) and writes
\* nothing
stats(u) ==
    /\ ~HandlerRunning
    /\ ~Suspended
    /\ LET message == get_monthly_stats(users, completions, now)
       IN UNCHANGED vars

\* Time passes
Tick(d) ==
    /\ ~HandlerRunning
    /\ now + d <= MaxTime
    /\ now' = now + d
    /\ UNCHANGED <<users, challenges, completions, user_data, txns, keyboards, queue, awaiting,
                   registered>>

\* The updates the application dispatches to its handlers, with the senders
\* of /start taking their names from profiles
Updates(profiles) ==
    \/ \E u \in UserIds, p \in profiles : start(u, p[1], p[2])
    \/ \E u \in UserIds, d \in {<<"daily">>, <<"weekly">>}
                               \cup {CompleteData(i) : i \in 1..MaxChallenges} :
          press(u, d)
    \/ \E u \in UserIds : press_not_complete(u)
    \/ button_callback
    \/ button_callback_edit
    \/ \E u \in UserIds, text \in Texts :
          TextFilter(text) /\ receive_challenge(u, text)
    \/ \E t \in txns : add_challenge_insert(t)
    \/ \E t \in txns : add_challenge_commit(t)
    \/ receive_challenge_clear
    \/ \E t \in txns : add_challenge_refused(t)
    \/ \E t \in txns : add_challenge_raise(t)
    \/ \E t \in txns : connection_dealloc(t)
    \/ \E u \in UserIds : check_progress(u)
    \/ \E u \in UserIds : stats(u)

Next ==
    \/ Updates(Profiles)
    \/ \E d \in TickDays : Tick(d)

Spec == Init /\ [][Next]_vars

----------------------------------------------------------------------------
(* The bot within one day: every datetime.now() gives the same day, and the
   senders of /start all have the same handle and display name *)

DayProfiles == {<<"h1", "n1">>}

NextDay == Updates(DayProfiles)

SpecDay == Init /\ [][NextDay]_vars

----------------------------------------------------------------------------
(* The database helper functions called directly, without the handlers *)

\* A value that is not one of the two frequencies
CallFrequencies == Frequencies \cup {"monthly"}

\* add_challenge(user_id, challenge_text, frequency), from connect to close
add_challenge(u, text, frequency) ==
    /\ LockFree
    /\ Len(challenges) < MaxChallenges
    /\ challenges' = Commit(challenges,
                         InsertChallenge(Deactivate(challenges, u), u, text,
                                         frequency, now))
    /\ UNCHANGED <<users, completions, user_data, txns, keyboards, queue, awaiting, now,
                   registered>>

\* add_user(user_id, username, first_name), from connect to close
add_user_call_cascade(u, username, first_name) ==
    /\ LockFree
    /\ users' = add_user(users, u, username, first_name)
    /\ registered' = [registered EXCEPT ![u] = <<username, first_name>>]
    /\ challenges' = Deactivate(challenges, u)
    /\ UNCHANGED <<completions, user_data, txns, keyboards, queue, awaiting, now>>

add_user_call(u, username, first_name) ==
    /\ LockFree
    /\ users' = add_user(users, u, username, first_name)
    /\ registered' = [registered EXCEPT ![u] = <<username, first_name>>]
    /\ UNCHANGED <<challenges, completions, user_data, txns, keyboards, queue, awaiting,
                   now>>

\* record_completion(user_id, challenge_id), from connect to close
record_completion_call(u, challenge_id) ==
    /\ LockFree
    /\ Len(completions) < MaxCompletions
    /\ completions' = record_completion(completions, u, challenge_id, now)
    /\ UNCHANGED <<users, challenges, user_data, txns, keyboards, queue, awaiting, now,
                   registered>>

NextCalls ==
    \/ \E u \in UserIds, p \in Profiles : add_user_call(u, p[1], p[2])
    \/ \E u \in UserIds, text \in Texts, f \in CallFrequencies :
          add_challenge(u, text, f)
    \/ \E u \in UserIds, i \in 1..MaxChallenges : record_completion_call(u, i)
    \/ \E d \in TickDays : Tick(d)

SpecCalls == Init /\ [][NextCalls]_vars

----------------------------------------------------------------------------
(* The program started on a database file that already holds challenges *)

\* CREATE TABLE IF NOT EXISTS keeps the rows of fitness_tracker.db, whatever
\* wrote them: any rows with consecutive ids, and any active flags
StoredChallenges ==
    UNION {[1..n -> [id : {0}, user_id : UserIds,
                     challenge_text : Texts \ {""}, frequency : Frequencies,
                     created_at : {0}, active : BOOLEAN]] :
           n \in 0..MaxChallenges}

InitStored ==
    /\ users = {}
    /\ \E tbl \in StoredChallenges :
          challenges = [i \in 1..Len(tbl) |-> [tbl[i] EXCEPT !.id = i]]
    /\ completions = <<>>
    /\ user_data = [u \in UserIds |-> {}]
    /\ txns = {}
    /\ keyboards = [k \in Keyboards |-> {}]
    /\ queue = <<>>
    /\ awaiting = NotAwaiting
    /\ now = 0
    /\ registered = [u \in UserIds |-> <<>>]

NextStored == \E u \in UserIds : check_progress(u)

SpecStored == InitStored /\ [][NextStored]_vars

----------------------------------------------------------------------------
(* Vocabulary of the properties *)

\* The rowids of user u's challenge rows, and of the active ones
RowsOf(tbl, u) == {i \in 1..Len(tbl) : tbl[i].user_id = u}

ActiveRowsOf(tbl, u) == {i \in RowsOf(tbl, u) : tbl[i].active}

ActiveCount(tbl, u) == Cardinality(ActiveRowsOf(tbl, u))

\* A row without its active flag
Content(r) == [id |-> r.id, user_id |-> r.user_id,
               challenge_text |-> r.challenge_text, frequency |-> r.frequency,
               created_at |-> r.created_at]

\* This step appends a completion row
RecordsCompletion == Len(completions') > Len(completions)

NewCompletion == completions'[Len(completions')]

\* This step sends a check-in prompt
SendsPrompt ==
    \E i \in 1..MaxChallenges :
        keyboards'[PromptKeyboard(i)] \ keyboards[PromptKeyboard(i)] # {}

\* This step is the commit of an add_challenge transaction
IsCommit == \E t \in txns : t.pc = "inserted" /\ txns' = txns \ {t}

----------------------------------------------------------------------------
(* Properties *)

\* C1: after any sequence of operations, every user has at most one
\* challenge row with active = true.
C1_AtMostOneActive ==
    \A u \in UserIds : ActiveCount(challenges, u) <= 1

\* A user replaced a challenge, and registrations and completions happened
C1_Witness ==
    /\ \E u \in UserIds :
          Cardinality(RowsOf(challenges, u)) >= 2 /\ ActiveCount(challenges, u) = 1
    /\ users # {}
    /\ completions # <<>>

\* C2: every completion row references the challenge that was the recording
\* user's active challenge at the moment the completion was recorded; in
\* particular, when a user confirms a prompt that was issued for one of
\* their own challenges, the new row carries the id of the challenge that is
\* active for them at that moment, not the id the prompt carries.
C2_LinkedToActiveAtRecording ==
    [][(/\ RecordsCompletion
        /\ NewCompletion.challenge_id \in
               RowsOf(challenges, NewCompletion.user_id)) =>
          NewCompletion.challenge_id =
              get_active_challenge(challenges, NewCompletion.user_id).id]_vars

\* C3: a completion is never recorded for a user who has no active challenge
\* at that moment, on any path that records completions.
C3_NoCompletionWithoutActive ==
    [][RecordsCompletion =>
          get_active_challenge(challenges, NewCompletion.user_id) # None]_vars

\* C4: setChallenge is atomic: the committed challenges table changes only
\* when a transaction commits, so a call that fails between the deactivation
\* and the insert leaves the committed state as it was before the call, and
\* a user with one active challenge keeps exactly one.
C4_SetChallengeAtomic ==
    [][/\ ~IsCommit => challenges' = challenges
       /\ \A u \in UserIds :
             ActiveCount(challenges, u) = 1 => ActiveCount(challenges', u) = 1]_vars

\* A call failed after its UPDATE had deactivated the user's active challenge
\* in the connection's cache; the committed table still has it active
C4_Witness ==
    \E t \in txns :
        /\ t.pc = "raised"
        /\ t.cache # challenges
        /\ Len(t.cache) = Len(challenges)
        /\ ActiveCount(challenges, t.user_id) = 1

\* C5: the deactivate and insert steps of one setChallenge call never
\* interleave with those of another call (of the calls whose connections are
\* open, at most one has executed its deactivation or its insert), and when
\* no call is running every user who has set a challenge has exactly one
\* active challenge.
C5_SetChallengeSerialized ==
    /\ Cardinality({t \in txns : t.pc # "waiting"}) <= 1
    /\ ~HandlerRunning =>
          \A u \in UserIds :
              RowsOf(challenges, u) # {} => ActiveCount(challenges, u) = 1

\* Two calls of a user who has a committed challenge are open: the first
\* failed after its deactivation and still holds its transaction, the
\* second has been started since and waits at its deactivation
C5_Witness ==
    \E t1, t2 \in txns :
        /\ t1.pc = "raised"
        /\ t2.pc = "waiting"
        /\ t1.user_id = t2.user_id
        /\ t1.cache # challenges
        /\ ActiveCount(challenges, t1.user_id) = 1

\* C6: getActiveChallenge returns exactly the user's most recently created
\* challenge, every earlier challenge of the user is still stored with
\* active = false, and no challenge row is ever deleted or rewritten.
C6_ActiveIsLatest ==
    \A u \in UserIds :
        RowsOf(challenges, u) # {} =>
            LET latest == CHOOSE i \in RowsOf(challenges, u) :
                              \A j \in RowsOf(challenges, u) : j <= i
            IN /\ get_active_challenge(challenges, u) =
                     [id |-> latest,
                      challenge_text |-> challenges[latest].challenge_text,
                      frequency |-> challenges[latest].frequency]
               /\ \A j \in RowsOf(challenges, u) \ {latest} : ~challenges[j].active

C6_NeverDeleted ==
    /\ Len(challenges') >= Len(challenges)
    /\ \A i \in 1..Len(challenges) :
          /\ challenges[i].id = i
          /\ Content(challenges'[i]) = Content(challenges[i])

C6_LatestActiveOthersRetained ==
    [](C6_ActiveIsLatest) /\ [][C6_NeverDeleted]_vars

\* One user set two challenges: the second is returned, the first is retired
C6_Witness ==
    \E u \in UserIds :
        /\ RowsOf(challenges, u) = {1, 2}
        /\ get_active_challenge(challenges, u).id = 2
        /\ ~challenges[1].active

\* C7: completions are append-only: the number of rows never decreases and a
\* row once written is never updated or removed.
C7_CompletionsAppendOnly ==
    [][/\ Len(completions') >= Len(completions)
       /\ SubSeq(completions', 1, Len(completions)) = completions]_vars

\* Two completions were recorded one after the other
C7_Witness ==
    /\ Len(completions) = 2
    /\ completions[1] # [completions[2] EXCEPT !.id = 1]

\* C8: registerUser is an upsert: there is exactly one users row per
\* registered id, it holds the handle and display name of the latest
\* registration, and the number of rows is the number of registered ids.
C8_RegisterIsUpsert ==
    /\ \A u \in UserIds :
          {r \in users : r.user_id = u} =
              IF registered[u] = <<>> THEN {}
              ELSE {UserRow(u, registered[u][1], registered[u][2])}
    /\ Cardinality(users) = Cardinality({r.user_id : r \in users})
    /\ Cardinality(users) = Cardinality({u \in UserIds : registered[u] # <<>>})

\* Both users are registered, under different names
C8_Witness ==
    /\ Cardinality(users) = 2
    /\ \E r1, r2 \in users : r1.first_name # r2.first_name

\* C9: monthlyLeaderboard has exactly one entry for every registered user,
\* and the entry's count is the number of that user's completion rows whose
\* timestamp is strictly greater than now minus the window.
C9_LeaderboardCounts ==
    LET g == GroupedStats(users, completions, now)
        result == get_monthly_stats(users, completions, now)
    IN /\ Len(result) = Cardinality(users)
       /\ Len(g) = Len(result)
       /\ \A r \in users :
             LET n == Cardinality({j \in 1..Len(completions) :
                          /\ completions[j].user_id = r.user_id
                          /\ completions[j].completed_at > now - WindowDays})
                 at == {i \in 1..Len(g) : g[i].user_id = r.user_id}
             IN /\ Cardinality(at) = 1
                /\ \A i \in at : result[i] = <<r.first_name, r.username, n>>

\* A registered user has one completion exactly at the boundary and one
\* inside the window that belongs to a retired challenge; another registered
\* user has no completion at all
C9_Witness ==
    /\ \E r1, r2 \in users :
          /\ \E j, k \in 1..Len(completions) :
                /\ completions[j].user_id = r1.user_id
                /\ completions[j].completed_at = now - WindowDays
                /\ completions[k].user_id = r1.user_id
                /\ completions[k].completed_at > now - WindowDays
                /\ completions[k].challenge_id \in 1..Len(challenges)
                /\ ~challenges[completions[k].challenge_id].active
          /\ \A j \in 1..Len(completions) : completions[j].user_id # r2.user_id
    /\ Len(get_monthly_stats(users, completions, now)) = 2

\* C10: the leaderboard is ordered by count descending: each entry's count
\* is greater than or equal to the next entry's count.
C10_LeaderboardDescending ==
    LET result == get_monthly_stats(users, completions, now)
    IN \A i \in 1..(Len(result) - 1) : result[i][3] >= result[i + 1][3]

\* The user scanned second has the larger count and is listed first
C10_Witness ==
    LET g == GroupedStats(users, completions, now)
    IN /\ Len(g) = 2
       /\ g[1].user_id > g[2].user_id
       /\ g[1].completion_count > g[2].completion_count

\* C11: recordCompletion is not idempotent: every call that records appends
\* exactly one row whose id differs from every existing completion id, also
\* when it repeats an earlier call for the same user and challenge.
C11_DistinctIds ==
    \A i, j \in 1..Len(completions) :
        completions[i].id = completions[j].id => i = j

C11_AppendsOneNewRow ==
    completions' # completions =>
        /\ Len(completions') = Len(completions) + 1
        /\ SubSeq(completions', 1, Len(completions)) = completions
        /\ \A i \in 1..Len(completions) : completions[i].id # NewCompletion.id

C11_EveryCallAppendsNewRow ==
    [](C11_DistinctIds) /\ [][C11_AppendsOneNewRow]_vars

\* The same user confirmed the same challenge twice at the same time:
\* two rows that differ in their id only
C11_Witness ==
    /\ Len(completions) = 2
    /\ completions[1].id # completions[2].id
    /\ completions[1] = [completions[2] EXCEPT !.id = completions[1].id]

\* C12: setChallenge with empty text or a frequency outside {daily, weekly}
\* is rejected before any write, so every stored challenge has non-empty
\* text and a frequency in {daily, weekly}.
C12_StoredChallengesValid ==
    \A i \in 1..Len(challenges) :
        /\ challenges[i].challenge_text # ""
        /\ challenges[i].frequency \in Frequencies

\* C13: every user id that appears in a challenge row or a completion row
\* also has a row in users.
C13_OwnersAreRegistered ==
    LET ids == {r.user_id : r \in users}
    IN /\ \A i \in 1..Len(challenges) : challenges[i].user_id \in ids
       /\ \A i \in 1..Len(completions) : completions[i].user_id \in ids

\* C14: when storage holds more than one active challenge for a user,
\* getActiveChallenge does not return one of that user's challenges.
C14_NoSilentPick ==
    \A u \in UserIds :
        ActiveCount(challenges, u) > 1 =>
            get_active_challenge(challenges, u).id \notin RowsOf(challenges, u)

\* C15: the read operations leave users, challenges and completions
\* unchanged (a step that sends a check-in prompt is a getActiveChallenge);
\* a table changes only by registerUser, setChallenge or recordCompletion.
C15_ReadsDoNotWrite ==
    [][/\ SendsPrompt =>
             /\ users' = users
             /\ challenges' = challenges
             /\ completions' = completions
       /\ users' # users =>
             /\ \E u \in UserIds, p \in Profiles :
                   users' = add_user(users, u, p[1], p[2])
             /\ challenges' = challenges
             /\ completions' = completions
       /\ challenges' # challenges =>
             /\ IsCommit
             /\ users' = users
             /\ completions' = completions
       /\ completions' # completions =>
             /\ \E u \in UserIds, i \in 1..Len(challenges) :
                   completions' = record_completion(completions, u, i, now)
             /\ users' = users
             /\ challenges' = challenges]_vars

\* A prompt is in the chat and the three tables are not empty
C15_Witness ==
    /\ \E i \in 1..MaxChallenges : keyboards[PromptKeyboard(i)] # {}
    /\ users # {}
    /\ challenges # <<>>
    /\ completions # <<>>

\* C16: every completion row references an existing challenge that is owned
\* by the completion's own user.
C16_CompletionOwnsChallenge ==
    \A i \in 1..Len(completions) :
        /\ completions[i].challenge_id \in 1..Len(challenges)
        /\ challenges[completions[i].challenge_id].user_id = completions[i].user_id

\* C17: once a setChallenge has succeeded for a user, the user has exactly
\* one active challenge in every later state.
C17_ExactlyOneOnceSet ==
    \A u \in UserIds :
        RowsOf(challenges, u) # {} => ActiveCount(challenges, u) = 1

\* A user with an active challenge is registered and has recorded a
\* completion, and a further call of theirs failed
C17_Witness ==
    \E u \in UserIds :
        /\ ActiveRowsOf(challenges, u) # {}
        /\ \E r \in users : r.user_id = u
        /\ \E j \in 1..Len(completions) :
              completions[j].user_id = u /\ completions[j].completed_at = now
        /\ \E t \in txns : t.pc = "raised" /\ t.user_id = u

\* C18: a setChallenge for user u changes only u's challenge rows: the rows
\* of every other user, all completion rows and all user rows are unchanged,
\* and so is the leaderboard.
C18_SetChallengeFrame ==
    [][\A t \in txns :
          (t.pc = "inserted" /\ txns' = txns \ {t}) =>
              /\ \A i \in 1..Len(challenges) :
                    challenges[i].user_id # t.user_id =>
                        challenges'[i] = challenges[i]
              /\ \A i \in (Len(challenges) + 1)..Len(challenges') :
                    challenges'[i].user_id = t.user_id
              /\ completions' = completions
              /\ users' = users
              /\ GroupedStats(users', completions', now') =
                    GroupedStats(users, completions, now)]_vars

\* The second challenge was set by another user than the first, whose
\* challenge is still active; a completion is stored
C18_Witness ==
    /\ Len(challenges) = 2
    /\ challenges[1].user_id # challenges[2].user_id
    /\ challenges[1].active /\ challenges[2].active
    /\ completions # <<>>
    /\ users # {}

\* C19: a text message creates a challenge only if the sender has a pending
\* frequency selection, and creating the challenge clears that selection.
C19_SelectionConsumed ==
    [][/\ \A t \in txns' \ txns :
             t.pc = "updated" => HasKey(user_data[t.user_id], "frequency")
       /\ challenges' # challenges => IsCommit
       /\ (awaiting.handler = "receive_challenge" /\ awaiting' = NotAwaiting) =>
             ~HasKey(user_data'[awaiting.user_id], "frequency")]_vars

\* C20: re-registering an existing user changes only that user's users row:
\* all challenge and completion rows are unchanged, and so are every user's
\* active challenge and leaderboard count.
C20_ReRegisterFrame ==
    [][\A u \in UserIds :
          (/\ \E r \in users : r.user_id = u
           /\ {r \in users' : r.user_id = u} # {r \in users : r.user_id = u}) =>
              /\ {r \in users' : r.user_id # u} = {r \in users : r.user_id # u}
              /\ challenges' = challenges
              /\ completions' = completions
              /\ \A v \in UserIds :
                    /\ get_active_challenge(challenges', v) =
                          get_active_challenge(challenges, v)
                    /\ CompletionCount(completions', v, now') =
                          CompletionCount(completions, v, now)]_vars

\* A registered user has an active challenge and a counted completion, and
\* so has the other user
C20_Witness ==
    \A u \in UserIds :
        /\ \E r \in users : r.user_id = u
        /\ ActiveCount(challenges, u) = 1
        /\ CompletionCount(completions, u, now) = 1

====
